---- MODULE Spec2Model ----
(***************************************************************************)
(* A model of the omni-cli agent core: the tool registry and executeTool   *)
(* (src/src/tools/index.ts) and the Agent class (src/src/agent.ts).        *)
(*                                                                         *)
(* Strings that the code builds by concatenation are modelled as sequences *)
(* of pieces, so that "Error: " + error is <<"Error: ">> \o error.         *)
(***************************************************************************)
EXTENDS Integers, Sequences, FiniteSets, TLC

VARIABLES
    \* ---- one executeTool call (tools/index.ts:136-195) ----
    tpc,            \* position of the call: idle / awaitApproval / executing / returned / raised
    tname,          \* toolName argument
    targs,          \* args argument: "json" (serialisable) or "circular"
    context,        \* ToolExecutionContext: approvalPolicy, onApprovalRequest configured or not
    approverCalls,  \* times context.onApprovalRequest was invoked in this call
    executorCalls,  \* times tool.execute was invoked in this call
    approverAnswer, \* what the approver did in this call: none / approved / denied / threw
    tresult,        \* the ToolResult the call returned
    \* ---- the Agent object (agent.ts:98-123) ----
    provider,       \* this.provider is set (TRUE) or null (FALSE)
    messages,       \* this.messages
    stats,          \* this.session.stats
    config,         \* this.config: approvalPolicy, maxCheckpoints
    options,        \* this.options: which callbacks are configured
    checkpoints,    \* this.session.checkpoints
    currentCheckpoint, \* this.session.currentCheckpoint (an array index, from 0)
    nextId,         \* how many ids uuidv4 has issued, plus one
    savedAt,        \* for each stored checkpoint, the conversation when it was saved
    lastOp,         \* the last operation called on the agent, its argument and its outcome;
                    \* for saveCheckpoint also the key of a successful restoreCheckpoint
                    \* called just before it
    \* ---- one chat call (agent.ts:164-256) ----
    chatPc,         \* idle / streaming / tool / resolved / rejected
    fullContent,    \* local fullContent
    toolCalls,      \* local toolCalls
    response,       \* the AgentResponse of the last resolved chat
    steps,          \* tool invocations the stream has dispatched in this submit
    script,         \* tool names the simulated model still wants to call, in order
    deltas,         \* text deltas emitted in this submit
    dispatched,     \* ToolResults executeTool returned in this submit, in order
    chats,          \* chat calls started so far
    submitted,      \* the conversation when the running chat was called, and its userMessage
    emitted,        \* textDelta values the stream has emitted in this submit, in order
    called,         \* names of the 'tool-call' parts the loop has seen in this submit, in order
    sink,           \* what options.onToken has been handed in this submit, in order
    \* ---- the command line program around the agent (cli.ts) ----
    cli             \* mode, the --full-auto flag, chats running beside the one the chat
                    \* variables follow, the chat a SIGINT arrived in, whether
                    \* killAllProcesses ran, and how the process ended

toolVars == <<tpc, tname, targs, context, approverCalls, executorCalls, approverAnswer, tresult>>

sessionVars == <<checkpoints, currentCheckpoint, nextId, savedAt, lastOp>>

agentVars == <<provider, messages, stats, config, options, cli, sessionVars>>

chatVars == <<chatPc, fullContent, toolCalls, response, steps, script, deltas, dispatched, chats,
              submitted, emitted, called, sink>>

vars == <<toolVars, agentVars, chatVars>>

-----------------------------------------------------------------------------
(* Tool registry *)

Policies == {"untrusted", "on-failure", "on-request", "never"}

Categories == {"file", "shell", "web", "mcp", "memory", "system"}

\* The substrings the code probes tool names for (String.prototype.includes),
\* tabulated per tool name.
NameParts ==
    [ read_file      |-> {"read_file"},
      list_directory |-> {"list_directory"},
      write_file     |-> {"write", "write_file"},
      edit_file      |-> {"edit", "edit_file"},
      delete_file    |-> {"delete"},
      shell          |-> {},
      web_search     |-> {},
      think          |-> {},
      mcp_call       |-> {},
      mcp_list       |-> {},
      memory_save    |-> {},
      memory_get     |-> {},
      shell_info     |-> {},
      web_post       |-> {},
      process_kill   |-> {"process"},
      no_such_tool   |-> {} ]

Includes(name, part) == part \in NameParts[name]

fileTools == {"read_file", "list_directory", "write_file", "edit_file", "delete_file"}
shellTools == {"shell"}
webTools == {"web_search"}

\* initializeBuiltInTools: the descriptors of the built-in tools.
BuiltInTools ==
    [n \in fileTools |->
        [name |-> n, category |-> "file",
         requiresApproval |-> Includes(n, "write") \/ Includes(n, "edit") \/ Includes(n, "delete")]]
    @@ [n \in shellTools |-> [name |-> n, category |-> "shell", requiresApproval |-> TRUE]]
    @@ [n \in webTools |-> [name |-> n, category |-> "web", requiresApproval |-> FALSE]]
    @@ [n \in {"think"} |-> [name |-> n, category |-> "system", requiresApproval |-> FALSE]]

\* registerTool: tools supplied from outside, one for each (category,
\* requiresApproval) pair the built-in tools leave out.
RegisteredExtra ==
    [ mcp_call     |-> [name |-> "mcp_call",     category |-> "mcp",    requiresApproval |-> TRUE],
      mcp_list     |-> [name |-> "mcp_list",     category |-> "mcp",    requiresApproval |-> FALSE],
      memory_save  |-> [name |-> "memory_save",  category |-> "memory", requiresApproval |-> TRUE],
      memory_get   |-> [name |-> "memory_get",   category |-> "memory", requiresApproval |-> FALSE],
      shell_info   |-> [name |-> "shell_info",   category |-> "shell",  requiresApproval |-> FALSE],
      web_post     |-> [name |-> "web_post",     category |-> "web",    requiresApproval |-> TRUE],
      process_kill |-> [name |-> "process_kill", category |-> "system", requiresApproval |-> TRUE] ]

\* toolRegistry after module load and external registration (last write wins).
toolRegistry == RegisteredExtra @@ BuiltInTools

ToolNames == DOMAIN NameParts

\* getTool: the descriptor, or the not-found signal.
NoTool == [name |-> "", category |-> "none", requiresApproval |-> FALSE]
getTool(name) == IF name \in DOMAIN toolRegistry THEN toolRegistry[name] ELSE NoTool

-----------------------------------------------------------------------------
(* Agent: construction and initialize *)

\* The loaded context files, as the section formatContextForPrompt renders.
ContextSections == {<<>>, <<"c">>}

\* buildSystemPrompt: the fixed template with the project context section,
\* when there is one, spliced in.
buildSystemPrompt(contextSection) ==
    <<"You are Omni">>
    \o (IF contextSection # <<>> THEN <<"## Project Context">> \o contextSection ELSE <<>>)
    \o <<"When helping with code">>

Message(role, content) == [role |-> role, content |-> content]

\* createInitialStats (startTime is left out: no operation reads it)
createInitialStats ==
    [promptTokens |-> 0, completionTokens |-> 0, totalTokens |-> 0,
     toolCalls |-> 0, fileReads |-> 0, fileWrites |-> 0, shellCommands |-> 0]

ZeroUsage == [promptTokens |-> 0, completionTokens |-> 0, totalTokens |-> 0]

NoResponse == [content |-> <<>>, toolCalls |-> <<>>, usage |-> ZeroUsage]

NoSubmit == [pre |-> <<>>, user |-> <<>>]

\* No chat has been called yet.
InitChatIdle ==
    /\ chatPc = "idle"
    /\ fullContent = <<>>
    /\ toolCalls = <<>>
    /\ response = NoResponse
    /\ steps = 0
    /\ script = <<>>
    /\ deltas = 0
    /\ dispatched = <<>>
    /\ chats = 0
    /\ submitted = NoSubmit
    /\ emitted = <<>>
    /\ called = <<>>
    /\ sink = <<>>

Op(op, key, flag) == [op |-> op, key |-> key, flag |-> flag, after |-> ""]

\* The record of a saveCheckpoint call: the id it returned, whether it evicted.
SaveOp(id, evicted) ==
    [Op("saveCheckpoint", id, evicted) EXCEPT
        !.after = IF lastOp.op = "restoreCheckpoint" /\ lastOp.flag THEN lastOp.key ELSE ""]

\* The session the constructor creates: no checkpoints, currentCheckpoint 0.
\* The agent used as a library: no command line program around it.
NoCli == [mode |-> "library", fullAuto |-> FALSE, overlapping |-> 0, interrupted |-> 0,
          killed |-> FALSE, exit |-> "running"]

InitSessionEmpty ==
    /\ checkpoints = <<>>
    /\ currentCheckpoint = 0
    /\ nextId = 1
    /\ savedAt = <<>>
    /\ lastOp = Op("new", "", FALSE)

\* new Agent(options): the constructor leaves this.messages empty.
InitAgent ==
    /\ provider \in BOOLEAN
    /\ messages = <<>>
    /\ stats = createInitialStats
    /\ InitSessionEmpty
    /\ config \in [approvalPolicy : Policies, maxCheckpoints : {0}]
    /\ options \in [onApprovalRequest : BOOLEAN, onToken : BOOLEAN]
    /\ cli = NoCli

InitAgentIdle ==
    /\ provider = FALSE
    /\ messages = <<>>
    /\ stats = createInitialStats
    /\ config = [approvalPolicy |-> "on-request", maxCheckpoints |-> 0]
    /\ options = [onApprovalRequest |-> FALSE, onToken |-> FALSE]
    /\ cli = NoCli
    /\ InitSessionEmpty
    /\ InitChatIdle

\* initialize(): creates the provider when there is none and resets the
\* conversation to the system message.
Initialize ==
    /\ chatPc \in {"idle", "resolved", "rejected"}
    /\ provider' = TRUE
    /\ \E section \in ContextSections :
         messages' = <<Message("system", buildSystemPrompt(section))>>
    /\ lastOp' = Op("initialize", "", TRUE)
    /\ UNCHANGED <<stats, config, options, cli, checkpoints, currentCheckpoint, nextId, savedAt,
                   chatVars, toolVars>>


-----------------------------------------------------------------------------
(* executeTool *)

NotApprovedError == <<"Operation was not approved by user">>
UnknownToolError(name) == <<"Unknown tool: ", name>>
ExecutionFailedError(msg) == <<"Tool execution failed: ", msg>>

Failure(err) == [success |-> FALSE, error |-> err]
Success(out) == [success |-> TRUE, output |-> out]

NoResult == [success |-> FALSE, error |-> <<>>]

\* What a tool executor may do: return a result (success or failure), or throw.
ExecutorResults == {Success(<<"out">>), Failure(<<"exit 1">>)}

\* needsApproval, tools/index.ts:151-154
NeedsApprovalIgnoringPolicy(tool, ctx) == tool.requiresApproval

NeedsApprovalIgnoringFlag(tool, ctx) ==
    ctx.approvalPolicy \in {"untrusted", "on-request"}

NeedsApproval(tool, ctx) ==
    /\ tool.requiresApproval
    /\ ctx.approvalPolicy # "never"
    /\ (ctx.approvalPolicy = "untrusted" \/ ctx.approvalPolicy = "on-request")

\* The branch taken once the approver has answered, tools/index.ts:169-177:
\* the position the call moves to and the result it returns there.
AfterApprovalIgnored(approved) == [pc |-> "executing", result |-> NoResult]

AfterApproval(approved) ==
    IF ~approved
    THEN [pc |-> "returned", result |-> Failure(NotApprovedError)]
    ELSE [pc |-> "executing", result |-> NoResult]

\* Entry of executeTool up to its first suspension point: the lookup, the
\* approval decision, the construction of the approval request and the call
\* of the approver, or else the call of the executor.
ExecuteToolEnter(name, args, ctx) ==
    /\ tpc \in {"idle", "returned", "raised"}
    /\ tname' = name
    /\ targs' = args
    /\ context' = ctx
    /\ approverAnswer' = "none"
    /\ LET tool == getTool(name) IN
       IF tool = NoTool
       THEN /\ tpc' = "returned"
            /\ tresult' = Failure(UnknownToolError(name))
            /\ approverCalls' = 0
            /\ executorCalls' = 0
       ELSE IF NeedsApproval(tool, ctx) /\ ctx.onApprovalRequest
       THEN IF args = "circular"
            THEN \* JSON.stringify(args) throws while the request is built
                 /\ tpc' = "raised"
                 /\ tresult' = NoResult
                 /\ approverCalls' = 0
                 /\ executorCalls' = 0
            ELSE /\ tpc' = "awaitApproval"
                 /\ tresult' = NoResult
                 /\ approverCalls' = 1
                 /\ executorCalls' = 0
       ELSE /\ tpc' = "executing"
            /\ tresult' = NoResult
            /\ approverCalls' = 0
            /\ executorCalls' = 1

\* A variant that puts the question again after a refusal.
ApproverAnswersAskingAgain(approved) ==
    /\ tpc = "awaitApproval"
    /\ approverAnswer' = IF approved THEN "approved" ELSE "denied"
    /\ IF approved
       THEN /\ tpc' = "executing"
            /\ tresult' = NoResult
            /\ executorCalls' = executorCalls + 1
            /\ approverCalls' = approverCalls
       ELSE /\ tpc' = IF approverCalls < 2 THEN "awaitApproval" ELSE "returned"
            /\ tresult' = IF approverCalls < 2 THEN NoResult ELSE Failure(NotApprovedError)
            /\ executorCalls' = executorCalls
            /\ approverCalls' = IF approverCalls < 2 THEN approverCalls + 1 ELSE approverCalls
    /\ UNCHANGED <<tname, targs, context>>

\* await context.onApprovalRequest(request) resolves with a boolean.
ApproverAnswers(approved) ==
    /\ tpc = "awaitApproval"
    /\ approverAnswer' = IF approved THEN "approved" ELSE "denied"
    /\ tpc' = AfterApproval(approved).pc
    /\ tresult' = AfterApproval(approved).result
    /\ executorCalls' = IF AfterApproval(approved).pc = "executing"
                        THEN executorCalls + 1 ELSE executorCalls
    /\ UNCHANGED <<tname, targs, context, approverCalls>>

\* await context.onApprovalRequest(request) rejects: the await is outside the
\* try block, so the fault leaves executeTool.
ApproverThrows ==
    /\ tpc = "awaitApproval"
    /\ approverAnswer' = "threw"
    /\ tpc' = "raised"
    /\ UNCHANGED <<tname, targs, context, approverCalls, executorCalls, tresult>>

\* A variant that fills the empty on-failure branch with a retry approval.
ExecutorReturnsAskingOnFailure(result) ==
    /\ tpc = "executing"
    /\ IF ~result.success /\ context.approvalPolicy = "on-failure" /\ context.onApprovalRequest
       THEN /\ tpc' = "awaitApproval"
            /\ approverCalls' = approverCalls + 1
            /\ tresult' = tresult
       ELSE /\ tpc' = "returned"
            /\ approverCalls' = approverCalls
            /\ tresult' = result
    /\ UNCHANGED <<tname, targs, context, executorCalls, approverAnswer>>

\* await tool.execute(args) resolves; the on-failure branch at 184-186 is empty.
ExecutorReturns(result) ==
    /\ tpc = "executing"
    /\ tpc' = "returned"
    /\ tresult' = result
    /\ UNCHANGED <<tname, targs, context, approverCalls, executorCalls, approverAnswer>>

\* await tool.execute(args) rejects: caught at 189-194.
ExecutorThrows ==
    /\ tpc = "executing"
    /\ tpc' = "returned"
    /\ tresult' = Failure(ExecutionFailedError("boom"))
    /\ UNCHANGED <<tname, targs, context, approverCalls, executorCalls, approverAnswer>>

Contexts == [approvalPolicy : Policies, onApprovalRequest : BOOLEAN]

InitTool ==
    /\ InitAgentIdle
    /\ tpc = "idle"
    /\ tname = "no_such_tool"
    /\ targs = "json"
    /\ context \in Contexts
    /\ approverCalls = 0
    /\ executorCalls = 0
    /\ approverAnswer = "none"
    /\ tresult = NoResult

\* A direct caller of executeTool (createToolExecutor, an embedding program).
CallExecuteTool ==
    /\ \E name \in ToolNames, args \in {"json", "circular"}, ctx \in Contexts :
        ExecuteToolEnter(name, args, ctx)
    /\ UNCHANGED <<agentVars, chatVars>>

ApproverStep ==
    /\ \E approved \in BOOLEAN : ApproverAnswers(approved)
    /\ UNCHANGED <<agentVars, chatVars>>

ApproverFault == ApproverThrows /\ UNCHANGED <<agentVars, chatVars>>

ExecutorStep ==
    /\ \E result \in ExecutorResults : ExecutorReturns(result)
    /\ UNCHANGED <<agentVars, chatVars>>

ExecutorFault == ExecutorThrows /\ UNCHANGED <<agentVars, chatVars>>

NextTool ==
    \/ CallExecuteTool
    \/ ApproverStep
    \/ ApproverFault
    \/ ExecutorStep
    \/ ExecutorFault

SpecTool == InitTool /\ [][NextTool]_vars

-----------------------------------------------------------------------------
(* Agent.chat *)

MaxSteps == 10

\* A variant that counts a call in toolCalls only when no category took it.
updateToolStatsCountingUncategorised(st, toolName) ==
    IF Includes(toolName, "read_file") \/ Includes(toolName, "list_directory")
    THEN [st EXCEPT !.fileReads = @ + 1]
    ELSE IF Includes(toolName, "write_file") \/ Includes(toolName, "edit_file")
    THEN [st EXCEPT !.fileWrites = @ + 1]
    ELSE IF toolName = "shell" \/ Includes(toolName, "process")
    THEN [st EXCEPT !.shellCommands = @ + 1]
    ELSE [st EXCEPT !.toolCalls = @ + 1]

\* updateToolStats
updateToolStats(st, toolName) ==
    LET counted == [st EXCEPT !.toolCalls = @ + 1] IN
    IF Includes(toolName, "read_file") \/ Includes(toolName, "list_directory")
    THEN [counted EXCEPT !.fileReads = @ + 1]
    ELSE IF Includes(toolName, "write_file") \/ Includes(toolName, "edit_file")
    THEN [counted EXCEPT !.fileWrites = @ + 1]
    ELSE IF toolName = "shell" \/ Includes(toolName, "process")
    THEN [counted EXCEPT !.shellCommands = @ + 1]
    ELSE counted

\* The value the execute callback of buildToolDefinitions hands to the stream.
ExecuteCallbackValue(result) ==
    IF result.success THEN result.output ELSE <<"Error: ">> \o result.error

\* The ToolResult chat builds for a 'tool-result' part.
ToolResultOfPart(partResult) == [success |-> TRUE, output |-> partResult]

\* chat(userMessage) up to its first await.  modelScript is the simulated
\* model response: the tool calls it will request, one per step.
\* A variant that appends the user message before it looks for the provider.
ChatStartPushingFirst(userMessage, modelScript) ==
    /\ chatPc \in {"idle", "resolved", "rejected"}
    /\ chats' = chats + 1
    /\ submitted' = IF provider THEN [pre |-> messages, user |-> userMessage] ELSE NoSubmit
    /\ lastOp' = Op("chat", "", provider)
    /\ messages' = Append(messages, Message("user", userMessage))
    /\ IF ~provider
       THEN /\ chatPc' = "rejected"
            /\ UNCHANGED <<fullContent, toolCalls, steps, script, deltas, dispatched,
                           emitted, called, sink>>
       ELSE /\ chatPc' = "streaming"
            /\ fullContent' = <<>>
            /\ toolCalls' = <<>>
            /\ steps' = 0
            /\ deltas' = 0
            /\ script' = modelScript
            /\ dispatched' = <<>>
            /\ emitted' = <<>>
            /\ called' = <<>>
            /\ sink' = <<>>
    /\ UNCHANGED <<provider, stats, config, options, cli, response, toolVars,
                   checkpoints, currentCheckpoint, nextId, savedAt>>

ChatStart(userMessage, modelScript) ==
    /\ chatPc \in {"idle", "resolved", "rejected"}
    /\ chats' = chats + 1
    /\ submitted' = IF provider THEN [pre |-> messages, user |-> userMessage] ELSE NoSubmit
    /\ lastOp' = Op("chat", "", provider)
    /\ IF ~provider
       THEN /\ chatPc' = "rejected"
            /\ UNCHANGED <<messages, fullContent, toolCalls, steps, script, deltas, dispatched,
                           emitted, called, sink>>
       ELSE /\ chatPc' = "streaming"
            /\ messages' = Append(messages, Message("user", userMessage))
            /\ fullContent' = <<>>
            /\ toolCalls' = <<>>
            /\ steps' = 0
            /\ deltas' = 0
            /\ script' = modelScript
            /\ dispatched' = <<>>
            /\ emitted' = <<>>
            /\ called' = <<>>
            /\ sink' = <<>>
    /\ UNCHANGED <<provider, stats, config, options, cli, response, toolVars,
                   checkpoints, currentCheckpoint, nextId, savedAt>>

\* A variant that puts each new delta in front of the text accumulated so far.
StreamTextDeltaPrepending(textDelta) ==
    /\ chatPc = "streaming"
    /\ sink' = IF options.onToken THEN Append(sink, textDelta) ELSE sink
    /\ fullContent' = textDelta \o fullContent
    /\ emitted' = Append(emitted, textDelta)
    /\ deltas' = deltas + 1
    /\ UNCHANGED <<agentVars, toolVars, chatPc, toolCalls, response, steps, script, dispatched,
                   chats, submitted, called>>

\* The stream emits a text delta: onChunk hands it to options.onToken, when
\* there is one, and case 'text-delta' of the loop appends it to fullContent.
StreamTextDelta(textDelta) ==
    /\ chatPc = "streaming"
    /\ sink' = IF options.onToken THEN Append(sink, textDelta) ELSE sink
    /\ fullContent' = fullContent \o textDelta
    /\ emitted' = Append(emitted, textDelta)
    /\ deltas' = deltas + 1
    /\ UNCHANGED <<agentVars, toolVars, chatPc, toolCalls, response, steps, script, dispatched,
                   chats, submitted, called>>

\* case 'tool-call' for a tool in the definitions: the statistics are
\* updated, and the stream runs the tool's execute callback, which enters
\* executeTool with the agent's policy and approver.
StreamToolCall ==
    /\ chatPc = "streaming"
    /\ script # <<>>
    /\ steps < MaxSteps
    /\ Head(script) \in DOMAIN toolRegistry
    /\ stats' = updateToolStats(stats, Head(script))
    /\ ExecuteToolEnter(Head(script), "json",
            [approvalPolicy |-> config.approvalPolicy,
             onApprovalRequest |-> options.onApprovalRequest])
    /\ called' = Append(called, Head(script))
    /\ chatPc' = "tool"
    /\ steps' = steps + 1
    /\ script' = Tail(script)
    /\ UNCHANGED <<provider, messages, config, options, cli, sessionVars, fullContent, toolCalls,
                   response, deltas, dispatched, chats, submitted, emitted, sink>>

\* A tool call naming a tool that is not in the definitions never reaches an
\* execute callback: the stream reports it as a part of another type, which
\* the switch has no case for.
StreamUnknownToolCall ==
    /\ chatPc = "streaming"
    /\ script # <<>>
    /\ steps < MaxSteps
    /\ Head(script) \notin DOMAIN toolRegistry
    /\ steps' = steps + 1
    /\ script' = Tail(script)
    /\ UNCHANGED <<agentVars, toolVars, chatPc, fullContent, toolCalls, response,
                   deltas, dispatched, chats, submitted, emitted, called, sink>>

\* A variant that treats a failed tool result as fatal for the submit.
StreamToolResultAbortingOnFailure ==
    /\ chatPc = "tool"
    /\ tpc = "returned"
    /\ toolCalls' = Append(toolCalls,
            [name |-> tname, args |-> targs,
             result |-> ToolResultOfPart(ExecuteCallbackValue(tresult))])
    /\ dispatched' = Append(dispatched, tresult)
    /\ chatPc' = IF tresult.success THEN "streaming" ELSE "rejected"
    /\ UNCHANGED <<agentVars, toolVars, fullContent, response, steps, script, deltas, chats,
                   submitted, emitted, called, sink>>

\* A variant that records each new result in front of the earlier ones.
StreamToolResultPrepending ==
    /\ chatPc = "tool"
    /\ tpc = "returned"
    /\ toolCalls' = <<[name |-> tname, args |-> targs,
                       result |-> ToolResultOfPart(ExecuteCallbackValue(tresult))]>>
                    \o toolCalls
    /\ dispatched' = <<tresult>> \o dispatched
    /\ chatPc' = "streaming"
    /\ UNCHANGED <<agentVars, toolVars, fullContent, response, steps, script, deltas, chats,
                   submitted, emitted, called, sink>>

\* case 'tool-result': the execute callback has returned.
\* A variant that also records the tool result as a message of the conversation.
StreamToolResultAppendingToolMessage ==
    /\ chatPc = "tool"
    /\ tpc = "returned"
    /\ toolCalls' = Append(toolCalls,
            [name |-> tname, args |-> targs,
             result |-> ToolResultOfPart(ExecuteCallbackValue(tresult))])
    /\ dispatched' = Append(dispatched, tresult)
    /\ messages' = Append(messages, Message("tool", ExecuteCallbackValue(tresult)))
    /\ chatPc' = "streaming"
    /\ UNCHANGED <<provider, stats, config, options, cli, sessionVars, toolVars, fullContent,
                   response, steps, script, deltas, chats, submitted, emitted, called, sink>>

StreamToolResult ==
    /\ chatPc = "tool"
    /\ tpc = "returned"
    /\ toolCalls' = Append(toolCalls,
            [name |-> tname, args |-> targs,
             result |-> ToolResultOfPart(ExecuteCallbackValue(tresult))])
    /\ dispatched' = Append(dispatched, tresult)
    /\ chatPc' = "streaming"
    /\ UNCHANGED <<agentVars, toolVars, fullContent, response, steps, script, deltas, chats,
                   submitted, emitted, called, sink>>

\* A variant in which a rejected execute callback leaves the stream waiting
\* for a result that never comes.
StreamToolErrorHanging ==
    /\ chatPc = "tool"
    /\ tpc = "raised"
    /\ UNCHANGED vars

\* The execute callback rejected (executeTool raised): the stream reports an
\* error part, which the switch has no case for.
StreamToolError ==
    /\ chatPc = "tool"
    /\ tpc = "raised"
    /\ chatPc' = "streaming"
    /\ UNCHANGED <<agentVars, toolVars, fullContent, toolCalls, response, steps, script,
                   deltas, dispatched, chats, submitted, emitted, called, sink>>

\* A variant that assigns the usage over the token counters instead of adding it.
ChatFinishAssigningUsage(usage) ==
    /\ chatPc = "streaming"
    /\ script = <<>> \/ steps = MaxSteps
    /\ stats' = [stats EXCEPT !.promptTokens = usage.promptTokens,
                              !.completionTokens = usage.completionTokens,
                              !.totalTokens = usage.totalTokens]
    /\ messages' = Append(messages, Message("assistant", fullContent))
    /\ response' = [content |-> fullContent, toolCalls |-> toolCalls,
                    usage |-> [promptTokens |-> usage.promptTokens,
                               completionTokens |-> usage.completionTokens,
                               totalTokens |-> usage.totalTokens]]
    /\ chatPc' = "resolved"
    /\ submitted' = NoSubmit
    /\ UNCHANGED <<provider, config, options, cli, sessionVars, toolVars, fullContent, toolCalls,
                   steps, script, deltas, dispatched, chats, emitted, called, sink>>

\* The stream ends; usage resolves; the assistant message is appended.
ChatFinish(usage) ==
    /\ chatPc = "streaming"
    /\ script = <<>> \/ steps = MaxSteps
    /\ stats' = [stats EXCEPT !.promptTokens = @ + usage.promptTokens,
                              !.completionTokens = @ + usage.completionTokens,
                              !.totalTokens = @ + usage.totalTokens]
    /\ messages' = Append(messages, Message("assistant", fullContent))
    /\ response' = [content |-> fullContent, toolCalls |-> toolCalls,
                    usage |-> [promptTokens |-> usage.promptTokens,
                               completionTokens |-> usage.completionTokens,
                               totalTokens |-> usage.totalTokens]]
    /\ chatPc' = "resolved"
    /\ submitted' = NoSubmit
    /\ UNCHANGED <<provider, config, options, cli, sessionVars, toolVars, fullContent, toolCalls,
                   steps, script, deltas, dispatched, chats, emitted, called, sink>>

\* A variant whose catch block keeps the partial reply as an assistant message.
ConnectorFailsKeepingPartial ==
    /\ chatPc = "streaming"
    /\ chatPc' = "rejected"
    /\ messages' = Append(messages, Message("assistant", fullContent))
    /\ fullContent' = <<>>
    /\ toolCalls' = <<>>
    /\ steps' = 0
    /\ script' = <<>>
    /\ deltas' = 0
    /\ dispatched' = <<>>
    /\ emitted' = <<>>
    /\ called' = <<>>
    /\ submitted' = NoSubmit
    /\ UNCHANGED <<provider, stats, config, options, cli, sessionVars, toolVars, response,
                   chats, sink>>

\* streamText, the stream or the usage promise fails: the catch block
\* reports the error and rethrows, and the locals of the call are gone.
ConnectorFails ==
    /\ chatPc = "streaming"
    /\ chatPc' = "rejected"
    /\ fullContent' = <<>>
    /\ toolCalls' = <<>>
    /\ steps' = 0
    /\ script' = <<>>
    /\ deltas' = 0
    /\ dispatched' = <<>>
    /\ emitted' = <<>>
    /\ called' = <<>>
    /\ submitted' = NoSubmit
    /\ UNCHANGED <<agentVars, toolVars, response, chats, sink>>

-----------------------------------------------------------------------------
(* The chat specification: one agent, its chats and the tools they run *)

MaxDeltas == 2
MaxVaried == 2
MaxRequested == 11

UserMessages == {<<"h", "i">>}
\* The text deltas of the simulated stream, in the order it emits them.
TextDeltas == <<<<"a">>, <<"b">>, <<"c">>, <<"d">>>>
Usages == {[promptTokens |-> 1, completionTokens |-> 1, totalTokens |-> 2],
           [promptTokens |-> 2, completionTokens |-> 1, totalTokens |-> 4]}

\* The tools the simulated model asks for.
ChatTools == {"read_file", "shell", "no_such_tool"}
PlainTool == "think"

RECURSIVE SeqsUpTo(_, _)
SeqsUpTo(S, n) ==
    IF n = 0 THEN {<<>>}
    ELSE LET shorter == SeqsUpTo(S, n - 1) IN
         shorter \cup {Append(q, x) : q \in shorter, x \in S}

\* Simulated model responses: every sequence of at most MaxVaried tool calls
\* over ChatTools, and longer runs of the plain tool up to MaxRequested calls.
ModelScripts ==
    SeqsUpTo(ChatTools, MaxVaried)
    \cup {[i \in 1..n |-> PlainTool] : n \in (MaxVaried + 1)..MaxRequested}

InitChat ==
    /\ InitAgent
    /\ InitChatIdle
    /\ tpc = "idle"
    /\ tname = "no_such_tool"
    /\ targs = "json"
    /\ context = [approvalPolicy |-> config.approvalPolicy,
                  onApprovalRequest |-> options.onApprovalRequest]
    /\ approverCalls = 0
    /\ executorCalls = 0
    /\ approverAnswer = "none"
    /\ tresult = NoResult

\* The specification follows one submit of a new agent from its start to its end.
Submit ==
    /\ chatPc = "idle"
    /\ \E userMessage \in UserMessages, modelScript \in ModelScripts :
         ChatStart(userMessage, modelScript)

TextDelta ==
    /\ deltas < MaxDeltas
    /\ StreamTextDelta(TextDeltas[deltas + 1])

Finish == \E usage \in Usages : ChatFinish(usage)

\* executeTool running on behalf of the stream
ToolApproverStep == chatPc = "tool" /\ ApproverStep
ToolApproverFault == chatPc = "tool" /\ ApproverFault
\* Only the first MaxVaried executions of a submit may fail or throw.
ToolExecutorStep ==
    /\ chatPc = "tool"
    /\ \E result \in ExecutorResults :
         /\ steps > MaxVaried => result.success
         /\ ExecutorReturns(result)
    /\ UNCHANGED <<agentVars, chatVars>>
ToolExecutorFault == chatPc = "tool" /\ steps <= MaxVaried /\ ExecutorFault

NextChat ==
    \/ Initialize
    \/ Submit
    \/ TextDelta
    \/ StreamToolCall
    \/ StreamUnknownToolCall
    \/ ToolApproverStep
    \/ ToolApproverFault
    \/ ToolExecutorStep
    \/ ToolExecutorFault
    \/ StreamToolResult
    \/ StreamToolError
    \/ Finish
    \/ ConnectorFails

SpecChat == InitChat /\ [][NextChat]_vars

\* One submit under the provisos of a terminating run: the stream goes on to
\* its next part until it ends or fails, every approval request is answered
\* (or fails) and every tool execution returns (or throws).
StreamStep ==
    \/ TextDelta
    \/ StreamToolCall
    \/ StreamUnknownToolCall
    \/ StreamToolResult
    \/ StreamToolError
    \/ Finish
    \/ ConnectorFails

ApprovalReturns == ToolApproverStep \/ ToolApproverFault
ExecutionReturns == ToolExecutorStep \/ ToolExecutorFault

SpecChatLive ==
    /\ SpecChat
    /\ WF_vars(StreamStep)
    /\ WF_vars(ApprovalReturns)
    /\ WF_vars(ExecutionReturns)

-----------------------------------------------------------------------------
(* Agent: checkpoints, compact, clear, refreshContext *)

DefaultMaxCheckpoints == 10
KeepRecent == 4
SliceLen == 200

\* uuidv4(): a fresh id at every call.
Uuids == <<"u1", "u2", "u3", "u4", "u5", "u6", "u7", "u8">>
uuidv4 == Uuids[nextId]

\* The tag parameter: <<>> is undefined, <<t>> is the string t.
NoTag == <<>>

\* (this.config.maxCheckpoints || 10): an unset and a zero setting both give 10.
CheckpointLimit(cfg) ==
    IF cfg.maxCheckpoints = 0 THEN DefaultMaxCheckpoints ELSE cfg.maxCheckpoints

\* A variant that never evicts.
saveCheckpointKeepingAll(tag) ==
    LET checkpoint == [id |-> uuidv4, tag |-> tag, messages |-> messages, stats |-> stats]
        pushed == Append(checkpoints, checkpoint)
    IN  /\ checkpoints' = pushed
        /\ savedAt' = Append(savedAt, messages)
        /\ currentCheckpoint' = Len(pushed) - 1
        /\ nextId' = nextId + 1
        /\ lastOp' = SaveOp(checkpoint.id, FALSE)
        /\ UNCHANGED <<provider, messages, stats, config, options, cli>>

\* A variant that evicts the entry just pushed instead of the oldest one.
saveCheckpointEvictingNewest(tag) ==
    LET checkpoint == [id |-> uuidv4, tag |-> tag, messages |-> messages, stats |-> stats]
        pushed == Append(checkpoints, checkpoint)
        evict == Len(pushed) > CheckpointLimit(config)
    IN  /\ checkpoints' = IF evict THEN checkpoints ELSE pushed
        /\ savedAt' = IF evict THEN savedAt ELSE Append(savedAt, messages)
        /\ currentCheckpoint' = IF evict THEN Len(pushed) - 2 ELSE Len(pushed) - 1
        /\ nextId' = nextId + 1
        /\ lastOp' = SaveOp(checkpoint.id, evict)
        /\ UNCHANGED <<provider, messages, stats, config, options, cli>>

\* A variant that forgets to move currentCheckpoint when it evicts.
saveCheckpointNotDecrementing(tag) ==
    LET checkpoint == [id |-> uuidv4, tag |-> tag, messages |-> messages, stats |-> stats]
        pushed == Append(checkpoints, checkpoint)
        evict == Len(pushed) > CheckpointLimit(config)
    IN  /\ checkpoints' = IF evict THEN Tail(pushed) ELSE pushed
        /\ savedAt' = IF evict THEN Tail(Append(savedAt, messages)) ELSE Append(savedAt, messages)
        /\ currentCheckpoint' = Len(pushed) - 1
        /\ nextId' = nextId + 1
        /\ lastOp' = SaveOp(checkpoint.id, evict)
        /\ UNCHANGED <<provider, messages, stats, config, options, cli>>

\* A variant that snapshots the conversation without its last message.
saveCheckpointDroppingLast(tag) ==
    LET kept == IF messages = <<>> THEN <<>> ELSE SubSeq(messages, 1, Len(messages) - 1)
        checkpoint == [id |-> uuidv4, tag |-> tag, messages |-> kept, stats |-> stats]
        pushed == Append(checkpoints, checkpoint)
        evict == Len(pushed) > CheckpointLimit(config)
    IN  /\ checkpoints' = IF evict THEN Tail(pushed) ELSE pushed
        /\ savedAt' = IF evict THEN Tail(Append(savedAt, messages)) ELSE Append(savedAt, messages)
        /\ currentCheckpoint' = IF evict THEN Len(pushed) - 2 ELSE Len(pushed) - 1
        /\ nextId' = nextId + 1
        /\ lastOp' = SaveOp(checkpoint.id, evict)
        /\ UNCHANGED <<provider, messages, stats, config, options, cli>>

\* A variant that keeps the list newest first: the new checkpoint goes in
\* front and the last entry is dropped past the limit.
saveCheckpointNewestFirst(tag) ==
    LET checkpoint == [id |-> uuidv4, tag |-> tag, messages |-> messages, stats |-> stats]
        pushed == <<checkpoint>> \o checkpoints
        saved == <<messages>> \o savedAt
        evict == Len(pushed) > CheckpointLimit(config)
    IN  /\ checkpoints' = IF evict THEN SubSeq(pushed, 1, Len(pushed) - 1) ELSE pushed
        /\ savedAt' = IF evict THEN SubSeq(saved, 1, Len(saved) - 1) ELSE saved
        /\ currentCheckpoint' = 0
        /\ nextId' = nextId + 1
        /\ lastOp' = SaveOp(checkpoint.id, evict)
        /\ UNCHANGED <<provider, messages, stats, config, options, cli>>

\* saveCheckpoint(tag): the snapshot (timestamp and context are left out: no
\* operation reads them) is pushed and becomes current; past the limit the
\* oldest entry is shifted out and currentCheckpoint is decremented.
saveCheckpoint(tag) ==
    LET checkpoint == [id |-> uuidv4, tag |-> tag, messages |-> messages, stats |-> stats]
        pushed == Append(checkpoints, checkpoint)
        evict == Len(pushed) > CheckpointLimit(config)
    IN  /\ checkpoints' = IF evict THEN Tail(pushed) ELSE pushed
        /\ savedAt' = IF evict THEN Tail(Append(savedAt, messages)) ELSE Append(savedAt, messages)
        /\ currentCheckpoint' = IF evict THEN Len(pushed) - 2 ELSE Len(pushed) - 1
        /\ nextId' = nextId + 1
        /\ lastOp' = SaveOp(checkpoint.id, evict)
        /\ UNCHANGED <<provider, messages, stats, config, options, cli>>

\* A variant of the lookup that, among the checkpoints carrying the key as
\* tag, takes the one saved last (an id match still comes first).
FindCheckpointNewestTag(list, idOrTag) ==
    LET ids == {i \in 1..Len(list) : list[i].id = idOrTag}
        tags == {i \in 1..Len(list) : list[i].tag = <<idOrTag>>}
    IN  IF ids # {} THEN CHOOSE i \in ids : \A j \in ids : i <= j
        ELSE IF tags # {} THEN CHOOSE i \in tags : \A j \in tags : j <= i
        ELSE 0

\* A variant of the lookup that takes the last match in list order.
FindCheckpointLast(list, idOrTag) ==
    LET matches == {i \in 1..Len(list) : list[i].id = idOrTag \/ list[i].tag = <<idOrTag>>}
    IN  IF matches = {} THEN 0 ELSE CHOOSE i \in matches : \A j \in matches : j <= i

\* checkpoints.find(c => c.id === idOrTag || c.tag === idOrTag): the position
\* (from 1) of the first entry in list order that matches, 0 when none does.
FindCheckpoint(list, idOrTag) ==
    LET matches == {i \in 1..Len(list) : list[i].id = idOrTag \/ list[i].tag = <<idOrTag>>}
    IN  IF matches = {} THEN 0 ELSE CHOOSE i \in matches : \A j \in matches : i <= j

\* A variant that leaves the conversation alone and only moves currentCheckpoint.
restoreCheckpointKeepingConversation(idOrTag) ==
    LET found == FindCheckpoint(checkpoints, idOrTag) IN
    /\ lastOp' = Op("restoreCheckpoint", idOrTag, found # 0)
    /\ currentCheckpoint' = IF found = 0 THEN currentCheckpoint ELSE found - 1
    /\ UNCHANGED <<provider, messages, stats, config, options, cli, checkpoints, nextId, savedAt>>

\* A variant that, finding nothing, falls back to an empty conversation.
restoreCheckpointResettingOnMiss(idOrTag) ==
    LET found == FindCheckpoint(checkpoints, idOrTag) IN
    /\ lastOp' = Op("restoreCheckpoint", idOrTag, found # 0)
    /\ IF found = 0
       THEN /\ messages' = <<>>
            /\ currentCheckpoint' = 0
       ELSE /\ messages' = checkpoints[found].messages
            /\ currentCheckpoint' = found - 1
    /\ UNCHANGED <<provider, stats, config, options, cli, checkpoints, nextId, savedAt>>

\* A variant that also rolls the statistics back to the checkpoint's copy.
restoreCheckpointRollingBackStats(idOrTag) ==
    LET found == FindCheckpoint(checkpoints, idOrTag) IN
    /\ lastOp' = Op("restoreCheckpoint", idOrTag, found # 0)
    /\ IF found = 0
       THEN UNCHANGED <<messages, currentCheckpoint, stats>>
       ELSE /\ messages' = checkpoints[found].messages
            /\ currentCheckpoint' = found - 1
            /\ stats' = checkpoints[found].stats
    /\ UNCHANGED <<provider, config, options, cli, checkpoints, nextId, savedAt>>

\* A variant that rewinds the list as well: the checkpoints saved after the
\* restored one are dropped.
restoreCheckpointTruncatingList(idOrTag) ==
    LET found == FindCheckpoint(checkpoints, idOrTag) IN
    /\ lastOp' = Op("restoreCheckpoint", idOrTag, found # 0)
    /\ IF found = 0
       THEN UNCHANGED <<messages, currentCheckpoint, checkpoints, savedAt>>
       ELSE /\ messages' = checkpoints[found].messages
            /\ currentCheckpoint' = found - 1
            /\ checkpoints' = SubSeq(checkpoints, 1, found)
            /\ savedAt' = SubSeq(savedAt, 1, found)
    /\ UNCHANGED <<provider, stats, config, options, cli, nextId>>

\* restoreCheckpoint(idOrTag)
restoreCheckpoint(idOrTag) ==
    LET found == FindCheckpoint(checkpoints, idOrTag) IN
    /\ lastOp' = Op("restoreCheckpoint", idOrTag, found # 0)
    /\ IF found = 0
       THEN UNCHANGED <<messages, currentCheckpoint>>
       ELSE /\ messages' = checkpoints[found].messages
            /\ currentCheckpoint' = found - 1
    /\ UNCHANGED <<provider, stats, config, options, cli, checkpoints, nextId, savedAt>>

\* What an index past the end of an array reads.
Undefined == [role |-> "undefined", content |-> <<>>]

Chars ==
    [ user      |-> <<"u", "s", "e", "r">>,
      assistant |-> <<"a", "s", "s", "i", "s", "t", "a", "n", "t">>,
      system    |-> <<"s", "y", "s", "t", "e", "m">>,
      summaryOpen |-> <<"[", "P", "r", "e", "v", "i", "o", "u", "s", " ",
                        "c", "o", "n", "v", "e", "r", "s", "a", "t", "i", "o", "n", " ",
                        "s", "u", "m", "m", "a", "r", "y", "]", "\n">>,
      summaryClose |-> <<"\n", "[", "E", "n", "d", " ", "s", "u", "m", "m", "a", "r", "y", "]">> ]

\* String.prototype.slice(0, n)
Slice(content, n) == SubSeq(content, 1, IF Len(content) < n THEN Len(content) ELSE n)

\* `${m.role}: ${m.content.slice(0, 200)}`
SummaryLine(m) == Chars[m.role] \o <<":", " ">> \o Slice(m.content, SliceLen)

RECURSIVE JoinLines(_)
JoinLines(lines) ==
    IF lines = <<>> THEN <<>>
    ELSE IF Len(lines) = 1 THEN lines[1]
    ELSE lines[1] \o <<"\n">> \o JoinLines(Tail(lines))

\* A variant without the two early returns: slice(-4) of a short conversation
\* is the whole conversation and slice(1, -4) is empty.
CompactedWithoutEarlyReturn(msgs) ==
    LET systemMessage == IF msgs = <<>> THEN Undefined ELSE msgs[1]
        recentMessages == IF Len(msgs) <= KeepRecent THEN msgs
                          ELSE SubSeq(msgs, Len(msgs) - KeepRecent + 1, Len(msgs))
        oldMessages == SubSeq(msgs, 2, Len(msgs) - KeepRecent)
        summary == JoinLines([i \in 1..Len(oldMessages) |-> SummaryLine(oldMessages[i])])
        summaryMessage ==
            Message("system", Chars.summaryOpen \o summary \o Chars.summaryClose)
    IN  <<systemMessage, summaryMessage>> \o recentMessages

\* A variant that also summarises the first of the four recent messages.
CompactedKeepingThree(msgs) ==
    IF Len(msgs) <= KeepRecent THEN msgs
    ELSE LET systemMessage == msgs[1]
             recentMessages == SubSeq(msgs, Len(msgs) - KeepRecent + 2, Len(msgs))
             oldMessages == SubSeq(msgs, 2, Len(msgs) - KeepRecent + 1)
             summary == JoinLines([i \in 1..Len(oldMessages) |-> SummaryLine(oldMessages[i])])
             summaryMessage ==
                 Message("system", Chars.summaryOpen \o summary \o Chars.summaryClose)
         IN  IF Len(msgs) = KeepRecent + 1 THEN msgs
             ELSE <<systemMessage, summaryMessage>> \o recentMessages

\* A variant that leaves a conversation alone whose second message is
\* already a summary and which has nothing else to elide.
CompactedOnce(msgs) ==
    IF Len(msgs) <= KeepRecent THEN msgs
    ELSE LET systemMessage == msgs[1]
             recentMessages == SubSeq(msgs, Len(msgs) - KeepRecent + 1, Len(msgs))
             oldMessages == SubSeq(msgs, 2, Len(msgs) - KeepRecent)
             summary == JoinLines([i \in 1..Len(oldMessages) |-> SummaryLine(oldMessages[i])])
             summaryMessage ==
                 Message("system", Chars.summaryOpen \o summary \o Chars.summaryClose)
         IN  IF oldMessages = <<>> THEN msgs
             ELSE IF /\ Len(oldMessages) = 1
                     /\ oldMessages[1].role = "system"
                     /\ Len(oldMessages[1].content) >= Len(Chars.summaryOpen)
                     /\ SubSeq(oldMessages[1].content, 1, Len(Chars.summaryOpen))
                          = Chars.summaryOpen
             THEN msgs
             ELSE <<systemMessage, summaryMessage>> \o recentMessages

\* The conversation compact() leaves.
Compacted(msgs) ==
    IF Len(msgs) <= KeepRecent THEN msgs
    ELSE LET systemMessage == msgs[1]
             recentMessages == SubSeq(msgs, Len(msgs) - KeepRecent + 1, Len(msgs))
             oldMessages == SubSeq(msgs, 2, Len(msgs) - KeepRecent)
             summary == JoinLines([i \in 1..Len(oldMessages) |-> SummaryLine(oldMessages[i])])
             summaryMessage ==
                 Message("system", Chars.summaryOpen \o summary \o Chars.summaryClose)
         IN  IF oldMessages = <<>> THEN msgs
             ELSE <<systemMessage, summaryMessage>> \o recentMessages

\* compact()
compact ==
    /\ messages' = Compacted(messages)
    /\ lastOp' = Op("compact", "", TRUE)
    /\ UNCHANGED <<provider, stats, config, options, cli, checkpoints, currentCheckpoint, nextId,
                   savedAt>>

\* clear(): on an empty conversation this.messages[0] is undefined.
clear ==
    /\ messages' = <<IF messages = <<>> THEN Undefined ELSE messages[1]>>
    /\ stats' = createInitialStats
    /\ lastOp' = Op("clear", "", TRUE)
    /\ UNCHANGED <<provider, config, options, cli, checkpoints, currentCheckpoint, nextId, savedAt>>

\* A variant in which the stored checkpoints share the live message array, so
\* that rewriting index 0 shows in every checkpoint that starts with a
\* system message.
refreshContextThroughSharedArray(section) ==
    /\ messages' = IF messages # <<>> /\ messages[1].role = "system"
                   THEN [messages EXCEPT ![1] = Message("system", buildSystemPrompt(section))]
                   ELSE messages
    /\ checkpoints' =
          [i \in 1..Len(checkpoints) |->
             IF checkpoints[i].messages # <<>> /\ checkpoints[i].messages[1].role = "system"
             THEN [checkpoints[i] EXCEPT
                     !.messages[1] = Message("system", buildSystemPrompt(section))]
             ELSE checkpoints[i]]
    /\ lastOp' = Op("refreshContext", "", TRUE)
    /\ UNCHANGED <<provider, stats, config, options, cli, currentCheckpoint, nextId, savedAt>>

\* refreshContext(): the context files are loaded again and the system
\* message at index 0, when there is one, is rebuilt.  Reading .role of an
\* undefined first element throws, which leaves the conversation as it is.
refreshContext(section) ==
    /\ messages' = IF messages # <<>> /\ messages[1].role = "system"
                   THEN [messages EXCEPT ![1] = Message("system", buildSystemPrompt(section))]
                   ELSE messages
    /\ lastOp' = Op("refreshContext", "", TRUE)
    /\ UNCHANGED <<provider, stats, config, options, cli, checkpoints, currentCheckpoint, nextId,
                   savedAt>>

-----------------------------------------------------------------------------
(* The session specification: one agent through several submits, with its *)
(* checkpoints and its conversation maintenance                           *)

MaxChats == 3
MaxSaves == 2

CheckpointSettings == {0, 1}
SessionScripts == {<<>>, <<"read_file">>}
SessionUsage == [promptTokens |-> 1, completionTokens |-> 1, totalTokens |-> 2]
PlainTag == "t"
MissingKey == "zz"

InitSession ==
    /\ provider = FALSE
    /\ messages = <<>>
    /\ stats = createInitialStats
    /\ config \in [approvalPolicy : {"never"}, maxCheckpoints : CheckpointSettings]
    /\ options = [onApprovalRequest |-> FALSE, onToken |-> TRUE]
    /\ cli = NoCli
    /\ InitSessionEmpty
    /\ InitChatIdle
    /\ tpc = "idle"
    /\ tname = "no_such_tool"
    /\ targs = "json"
    /\ context = [approvalPolicy |-> config.approvalPolicy,
                  onApprovalRequest |-> options.onApprovalRequest]
    /\ approverCalls = 0
    /\ executorCalls = 0
    /\ approverAnswer = "none"
    /\ tresult = NoResult

\* The session operations are called between submits.
Quiescent == chatPc \in {"idle", "resolved", "rejected"}

\* initialize() is called once, as createAgent does.
SessionInitialize == ~provider /\ Initialize

SessionSubmit ==
    /\ chats < MaxChats
    /\ \E userMessage \in UserMessages, modelScript \in SessionScripts :
         \* only the first submit of the session asks for a tool
         /\ modelScript # <<>> => chats = 0
         /\ ChatStart(userMessage, modelScript)

\* At most one text delta per submit.
SessionTextDelta == deltas = 0 /\ StreamTextDelta(TextDeltas[1])

\* The simulated stream ends after its text delta.
SessionFinish == deltas = 1 /\ ChatFinish(SessionUsage)

\* The tool of the session's submits runs and succeeds.
SessionExecutorStep ==
    /\ chatPc = "tool"
    /\ ExecutorReturns(Success(<<"out">>))
    /\ UNCHANGED <<agentVars, chatVars>>

\* A tag is absent, a plain string, or the id of a checkpoint saved earlier.
SaveTags == {NoTag, <<PlainTag>>} \cup {<<Uuids[i]>> : i \in 1..(nextId - 1)}

SaveCheckpoint ==
    /\ Quiescent
    /\ nextId <= MaxSaves
    /\ \E tag \in SaveTags : saveCheckpoint(tag)
    /\ UNCHANGED <<chatVars, toolVars>>

RestoreKeys == {PlainTag, MissingKey} \cup {Uuids[i] : i \in 1..(nextId - 1)}

RestoreCheckpoint ==
    /\ Quiescent
    /\ \E idOrTag \in RestoreKeys : restoreCheckpoint(idOrTag)
    /\ UNCHANGED <<chatVars, toolVars>>

\* compact() is called on a conversation that holds no summary yet.
Compact ==
    /\ Quiescent
    /\ \A i \in 2..Len(messages) : messages[i].role # "system"
    /\ compact
    /\ UNCHANGED <<chatVars, toolVars>>

Clear == Quiescent /\ clear /\ UNCHANGED <<chatVars, toolVars>>

RefreshContext ==
    /\ Quiescent
    /\ \E section \in ContextSections : refreshContext(section)
    /\ UNCHANGED <<chatVars, toolVars>>

Next ==
    \/ SessionInitialize
    \/ SessionSubmit
    \/ SessionTextDelta
    \/ StreamToolCall
    \/ SessionExecutorStep
    \/ StreamToolResult
    \/ SessionFinish
    \/ SaveCheckpoint
    \/ RestoreCheckpoint
    \/ Compact
    \/ Clear
    \/ RefreshContext

Spec == InitSession /\ [][Next]_vars

-----------------------------------------------------------------------------
(* The checkpoint list on its own: saves and restores, with more saves and
   larger limits than the session specification affords. *)

MaxSavesDeep == 4
DeepCheckpointSettings == {0, 1, 2, 3}

InitSaves ==
    /\ provider = FALSE
    /\ messages = <<>>
    /\ stats = createInitialStats
    /\ config \in [approvalPolicy : {"never"}, maxCheckpoints : DeepCheckpointSettings]
    /\ options = [onApprovalRequest |-> FALSE, onToken |-> FALSE]
    /\ cli = NoCli
    /\ InitSessionEmpty
    /\ InitChatIdle
    /\ tpc = "idle"
    /\ tname = "no_such_tool"
    /\ targs = "json"
    /\ context = [approvalPolicy |-> config.approvalPolicy,
                  onApprovalRequest |-> options.onApprovalRequest]
    /\ approverCalls = 0
    /\ executorCalls = 0
    /\ approverAnswer = "none"
    /\ tresult = NoResult

SaveDeep ==
    /\ nextId <= MaxSavesDeep
    /\ \E tag \in SaveTags : saveCheckpoint(tag)
    /\ UNCHANGED <<chatVars, toolVars>>

RestoreDeep ==
    /\ \E idOrTag \in RestoreKeys : restoreCheckpoint(idOrTag)
    /\ UNCHANGED <<chatVars, toolVars>>

\* The conversation changes between saves when initialize() installs the
\* system message.
NextSaves ==
    \/ SessionInitialize
    \/ SaveDeep
    \/ RestoreDeep

SpecSaves == InitSaves /\ [][NextSaves]_vars

-----------------------------------------------------------------------------
(* compact() as a function of the conversation: the conversation is drawn
   from the conversations submits can build, with and without initialize(),
   and compact() is applied to it, repeatedly. *)

MaxConversation == 6

\* A message longer than the 200 characters a summary line keeps.
LongContent == [i \in 1..(SliceLen + 1) |-> IF i > SliceLen THEN "y" ELSE "x"]

TurnMessages ==
    {Message("user", <<"h", "i">>), Message("user", LongContent),
     Message("assistant", <<"a">>)}

\* What submits append: user messages, each assistant message right after
\* the user message it answers (a failed submit leaves its user message).
Turns ==
    {t \in SeqsUpTo(TurnMessages, MaxConversation) :
        \A i \in 1..Len(t) :
            t[i].role = "assistant" => i > 1 /\ t[i - 1].role = "user"}

Conversations ==
    Turns \cup {<<Message("system", buildSystemPrompt(<<>>))>> \o t : t \in Turns}

InitCompact ==
    /\ provider = TRUE
    /\ messages \in Conversations
    /\ stats = createInitialStats
    /\ config = [approvalPolicy |-> "never", maxCheckpoints |-> 0]
    /\ options = [onApprovalRequest |-> FALSE, onToken |-> FALSE]
    /\ cli = NoCli
    /\ InitSessionEmpty
    /\ InitChatIdle
    /\ tpc = "idle"
    /\ tname = "no_such_tool"
    /\ targs = "json"
    /\ context = [approvalPolicy |-> config.approvalPolicy,
                  onApprovalRequest |-> options.onApprovalRequest]
    /\ approverCalls = 0
    /\ executorCalls = 0
    /\ approverAnswer = "none"
    /\ tresult = NoResult

CompactConversation == compact /\ UNCHANGED <<chatVars, toolVars>>

NextCompact == CompactConversation

SpecCompact == InitCompact /\ [][NextCompact]_vars

-----------------------------------------------------------------------------
(* The command line program: runInteractive and runExec around one agent *)

MaxLines == 2
MaxOverlap == 1

\* The exec action's option handling: --approval replaces the configured
\* policy, then --full-auto sets it to 'never'.
ExecApprovalPolicy(approval, fullAuto) == IF fullAuto THEN "never" ELSE approval

\* A variant of runExec's approver that approves whatever it is asked.
ExecApproverApprovingAll(fullAuto) == TRUE

\* runExec's onApprovalRequest: true under --full-auto, false otherwise.
ExecApprover(fullAuto) == fullAuto

\* The answers the approver of the running program can give: in interactive
\* mode whatever the user types at the confirm prompt.
ApproverAnswersOf(c) ==
    IF c.mode = "exec" THEN {ExecApprover(c.fullAuto)} ELSE BOOLEAN

CliTools == {"read_file", "shell"}
\* What the simulated model asks for in one submit of the program.
CliScripts == {<<>>} \cup {<<t>> : t \in CliTools} \cup {<<"shell", "read_file">>}

InitCli ==
    /\ provider = FALSE
    /\ messages = <<>>
    /\ stats = createInitialStats
    /\ cli \in {[NoCli EXCEPT !.mode = "interactive"]}
               \cup {[NoCli EXCEPT !.mode = "exec", !.fullAuto = f] : f \in BOOLEAN}
    /\ \E approval \in Policies :
         config = [approvalPolicy |-> IF cli.mode = "exec"
                                      THEN ExecApprovalPolicy(approval, cli.fullAuto)
                                      ELSE approval,
                   maxCheckpoints |-> 0]
    /\ options = [onApprovalRequest |-> TRUE, onToken |-> TRUE]
    /\ InitSessionEmpty
    /\ InitChatIdle
    /\ tpc = "idle"
    /\ tname = "no_such_tool"
    /\ targs = "json"
    /\ context = [approvalPolicy |-> config.approvalPolicy,
                  onApprovalRequest |-> options.onApprovalRequest]
    /\ approverCalls = 0
    /\ executorCalls = 0
    /\ approverAnswer = "none"
    /\ tresult = NoResult

CliRunning == cli.exit = "running"
ChatRunning == chatPc \in {"streaming", "tool"}

\* Chats that have been called and have neither resolved nor rejected.
InFlight == (IF ChatRunning THEN 1 ELSE 0) + cli.overlapping

\* createAgent: new Agent and initialize()
CreateAgent == CliRunning /\ ~provider /\ Initialize

\* createAgent rejects (no provider can be created): runInteractive prints and
\* calls process.exit(1); in exec mode main().catch does.
CreateAgentFails ==
    /\ CliRunning
    /\ ~provider
    /\ cli' = [cli EXCEPT !.exit = "exit1"]
    /\ UNCHANGED <<provider, messages, stats, config, options, sessionVars, chatVars, toolVars>>

\* rl.on('line'): a line that is neither empty nor a command, read while no
\* chat is running, is sent to agent.chat.
CliLine ==
    /\ CliRunning
    /\ cli.mode = "interactive"
    /\ provider
    /\ chats < MaxLines
    /\ \E userMessage \in UserMessages, modelScript \in CliScripts :
         ChatStart(userMessage, modelScript)

\* rl.on('line') while an earlier handler is still awaiting agent.chat: the
\* handler runs all the same and calls agent.chat, which appends its user
\* message and opens a stream of its own.
CliLineDuringChat ==
    /\ CliRunning
    /\ cli.mode = "interactive"
    /\ ChatRunning
    /\ chats < MaxLines
    /\ cli.overlapping < MaxOverlap
    /\ \E userMessage \in UserMessages :
         messages' = Append(messages, Message("user", userMessage))
    /\ chats' = chats + 1
    /\ cli' = [cli EXCEPT !.overlapping = @ + 1]
    /\ lastOp' = Op("chat", "", TRUE)
    /\ UNCHANGED <<provider, stats, config, options, checkpoints, currentCheckpoint, nextId,
                   savedAt, toolVars, chatPc, fullContent, toolCalls, response, steps, script,
                   deltas, dispatched, submitted, emitted, called, sink>>

\* The stream of a chat started beside the running one ends: a reply of one
\* text delta and no tool call.
OverlappingChatFinishes ==
    /\ CliRunning
    /\ cli.overlapping > 0
    /\ stats' = [stats EXCEPT !.promptTokens = @ + SessionUsage.promptTokens,
                              !.completionTokens = @ + SessionUsage.completionTokens,
                              !.totalTokens = @ + SessionUsage.totalTokens]
    /\ messages' = Append(messages, Message("assistant", TextDeltas[2]))
    /\ cli' = [cli EXCEPT !.overlapping = @ - 1]
    /\ UNCHANGED <<provider, config, options, sessionVars, chatVars, toolVars>>

\* runExec: agent.chat(prompt), once.
ExecChat ==
    /\ CliRunning
    /\ cli.mode = "exec"
    /\ provider
    /\ chats = 0
    /\ \E userMessage \in UserMessages, modelScript \in CliScripts :
         ChatStart(userMessage, modelScript)

\* The stream and the tools go on for as long as the process lives.
CliTextDelta == CliRunning /\ deltas = 0 /\ StreamTextDelta(TextDeltas[1])
CliToolCall == CliRunning /\ StreamToolCall
CliToolResult == CliRunning /\ StreamToolResult
CliFinish == CliRunning /\ ChatFinish(SessionUsage)
CliConnectorFails == CliRunning /\ ConnectorFails

CliApproverStep ==
    /\ CliRunning
    /\ chatPc = "tool"
    /\ \E approved \in ApproverAnswersOf(cli) : ApproverAnswers(approved)
    /\ UNCHANGED <<agentVars, chatVars>>

CliExecutorStep ==
    /\ CliRunning
    /\ chatPc = "tool"
    /\ \E result \in ExecutorResults : ExecutorReturns(result)
    /\ UNCHANGED <<agentVars, chatVars>>

\* process.on('SIGINT') while a chat is running: prints a hint and shows the
\* prompt again. (With no chat running it does the same and nothing is
\* recorded.)
Sigint ==
    /\ CliRunning
    /\ cli.mode = "interactive"
    /\ ChatRunning
    /\ cli' = [cli EXCEPT !.interrupted = chats]
    /\ UNCHANGED <<provider, messages, stats, config, options, sessionVars, chatVars, toolVars>>

\* rl.on('close'), after /quit or the end of input: killAllProcesses(), then
\* process.exit(0).
CliClose ==
    /\ CliRunning
    /\ cli.mode = "interactive"
    /\ provider
    /\ cli' = [cli EXCEPT !.killed = TRUE, !.exit = "exit0"]
    /\ UNCHANGED <<provider, messages, stats, config, options, sessionVars, chatVars, toolVars>>

\* runExec returns after the chat resolved; the process ends.
ExecDone ==
    /\ CliRunning
    /\ cli.mode = "exec"
    /\ chatPc = "resolved"
    /\ cli' = [cli EXCEPT !.exit = "done"]
    /\ UNCHANGED <<provider, messages, stats, config, options, sessionVars, chatVars, toolVars>>

\* runExec's catch: the chat rejected, process.exit(1).
ExecFail ==
    /\ CliRunning
    /\ cli.mode = "exec"
    /\ chatPc = "rejected"
    /\ cli' = [cli EXCEPT !.exit = "exit1"]
    /\ UNCHANGED <<provider, messages, stats, config, options, sessionVars, chatVars, toolVars>>

NextCli ==
    \/ CreateAgent
    \/ CreateAgentFails
    \/ CliLine
    \/ CliLineDuringChat
    \/ OverlappingChatFinishes
    \/ ExecChat
    \/ CliTextDelta
    \/ CliToolCall
    \/ CliApproverStep
    \/ CliExecutorStep
    \/ CliToolResult
    \/ CliFinish
    \/ CliConnectorFails
    \/ Sigint
    \/ CliClose
    \/ ExecDone
    \/ ExecFail

SpecCli == InitCli /\ [][NextCli]_vars

-----------------------------------------------------------------------------
(* Properties of executeTool, checked under SpecTool *)

InCall == tpc # "idle"
Registered == tname \in DOMAIN toolRegistry
CalledTool == getTool(tname)

\* C2: for a tool with requiresApproval=true under policy untrusted or
\* on-request and no approver configured, executeTool denies: the executor is
\* not invoked and a failed result is returned.
C2_NoApproverDenies ==
    (/\ InCall
     /\ Registered
     /\ CalledTool.requiresApproval
     /\ context.approvalPolicy \in {"untrusted", "on-request"}
     /\ ~context.onApprovalRequest)
    => (/\ executorCalls = 0
        /\ tpc = "returned"
        /\ ~tresult.success)

\* C3: when the approver is prompted and returns false, the executor is never
\* invoked for that invocation and executeTool returns success=false with the
\* 'not approved' error.
C3_DeniedNeverExecutes ==
    approverAnswer = "denied"
    => (/\ executorCalls = 0
        /\ tpc = "returned"
        /\ tresult = Failure(NotApprovedError))

C3_Witness ==
    /\ approverAnswer = "denied"
    /\ approverCalls = 1
    /\ tpc = "returned"

\* C4: executeTool never raises: every fault during the call, including one
\* raised by the approver callback or by the executor, becomes a returned
\* result {success: false, error}.
C4_NeverRaises == tpc # "raised"

\* C5: under policy never, for every tool category and both values of
\* requiresApproval, executeTool invokes the executor and never the approver.
C5_PolicyNeverExecutes ==
    (InCall /\ Registered /\ context.approvalPolicy = "never")
    => (/\ approverCalls = 0
        /\ approverAnswer = "none"
        /\ executorCalls = 1
        /\ tpc \in {"executing", "returned"})

C5_Witness ==
    /\ tpc = "returned"
    /\ Registered
    /\ context.approvalPolicy = "never"
    /\ CalledTool.requiresApproval
    /\ context.onApprovalRequest
    /\ executorCalls = 1

\* C6: for a tool with requiresApproval=false, under every policy and with or
\* without an approver, the approver is never invoked and the executor is.
C6_NoApprovalFlagExecutes ==
    (InCall /\ Registered /\ ~CalledTool.requiresApproval)
    => (/\ approverCalls = 0
        /\ approverAnswer = "none"
        /\ executorCalls = 1
        /\ tpc \in {"executing", "returned"})

C6_Witness ==
    /\ tpc = "returned"
    /\ Registered
    /\ ~CalledTool.requiresApproval
    /\ context.approvalPolicy = "on-request"
    /\ context.onApprovalRequest
    /\ executorCalls = 1

C31_ApproverOnceExecutorAfterApproval ==
    /\ approverCalls <= 1
    /\ executorCalls <= 1
    /\ (tpc = "awaitApproval" \/ approverAnswer # "none") => approverCalls = 1
    /\ (approverCalls = 1 /\ executorCalls = 1) => approverAnswer = "approved"
    /\ (approverCalls = 1 /\ tpc = "executing") => approverAnswer = "approved"

C31_Witness ==
    /\ approverCalls = 1
    /\ approverAnswer = "approved"
    /\ executorCalls = 1
    /\ tpc = "returned"
    /\ tresult.success
    /\ CalledTool.requiresApproval

-----------------------------------------------------------------------------
(* Properties of Agent.chat, checked under SpecChat *)

\* C1: in every reachable state of an Agent the live conversation is
\* non-empty and its message at index 0 has role=system.
C1_SystemMessageFirst ==
    /\ Len(messages) >= 1
    /\ messages[1].role = "system"

\* C8: the tool result that submit records for a tool call that was denied by
\* the approver (or named an unknown tool) has success=false and carries the
\* denial error; it is never reported as success=true.
C8_DenialRecordedAsFailure ==
    \A i \in DOMAIN toolCalls :
        dispatched[i] \in {Failure(NotApprovedError), Failure(UnknownToolError(toolCalls[i].name))}
        => (/\ ~toolCalls[i].result.success
            /\ toolCalls[i].result = dispatched[i])

\* C9: a tool call that names an unregistered tool or that is denied approval
\* does not abort the submit: the step that consumes it leaves the chat
\* consuming the stream with the conversation untouched, and a chat that
\* resolves has appended an assistant message.
C9_FailedCallKeepsStreaming ==
    /\ [][ (chatPc = "tool" /\ tpc = "returned" /\ ~tresult.success /\ chatPc' # chatPc)
           => (chatPc' = "streaming" /\ messages' = messages) ]_vars
    /\ [][ (/\ chatPc = "streaming"
            /\ script # <<>>
            /\ Head(script) \notin DOMAIN toolRegistry
            /\ steps' = steps + 1)
           => (chatPc' = "streaming" /\ messages' = messages) ]_vars
    /\ [][ (chatPc' = "resolved" /\ chatPc # "resolved")
           => (/\ chatPc = "streaming"
               /\ messages' = Append(messages, Message("assistant", fullContent))) ]_vars

C9_Witness ==
    /\ chatPc = "resolved"
    /\ approverAnswer = "denied"
    /\ Len(dispatched) >= 1
    /\ dispatched[Len(dispatched)] = Failure(NotApprovedError)
    /\ messages[Len(messages)].role = "assistant"

StepLimited(resp) == "stepLimited" \in DOMAIN resp /\ resp.stepLimited

\* C10: within one submit the number of executed tool invocations never
\* exceeds the step bound: a model requesting n > bound sequential tool calls
\* gets exactly bound executions, then the loop stops, the accumulated content
\* is returned as a successful response, and the response is flagged as
\* step-limited.
C10_StepBoundFlagged ==
    /\ steps <= MaxSteps
    /\ (chatPc = "resolved" /\ steps + Len(script) > MaxSteps)
       => (/\ steps = MaxSteps
           /\ Len(response.toolCalls) = MaxSteps
           /\ response.content = fullContent
           /\ StepLimited(response))

\* C11: when the connector fails during a submit, chat rejects, the
\* conversation is the conversation at the call plus exactly the user
\* message (no assistant message, partial or complete), and once rejected
\* the call consumes no further stream event.
C11_ConnectorFailureLeavesUserMessage ==
    /\ [][(chatPc = "streaming" /\ chatPc' = "rejected")
            => messages' = Append(submitted.pre, Message("user", submitted.user))]_vars
    /\ [][(chatPc = "rejected" /\ chatPc' = "rejected")
            => UNCHANGED <<fullContent, toolCalls, stats, emitted, called, sink, response>>]_vars

\* A submit rejected after the stream had already emitted text and run a tool.
C11_Witness ==
    /\ chatPc = "rejected"
    /\ sink # <<>>
    /\ stats.toolCalls > 0
    /\ Len(messages) = 2
    /\ messages[2].role = "user"

RECURSIVE Concat(_)
Concat(seqs) == IF seqs = <<>> THEN <<>> ELSE Head(seqs) \o Concat(Tail(seqs))

\* C13: the accumulated and the returned content are the concatenation of the
\* text deltas in stream order, and the onToken sink, when configured, has
\* received exactly those deltas in that order (nothing when not configured).
C13_ContentIsConcatenationOfDeltas ==
    /\ chatPc \in {"streaming", "tool", "resolved"} =>
          /\ fullContent = Concat(emitted)
          /\ sink = IF options.onToken THEN emitted ELSE <<>>
    /\ chatPc = "resolved" => response.content = Concat(emitted)

\* A resolved submit whose stream emitted two different deltas to a sink.
C13_Witness ==
    /\ chatPc = "resolved"
    /\ options.onToken
    /\ Len(emitted) = 2
    /\ emitted[1] # emitted[2]
    /\ response.content = emitted[1] \o emitted[2]

RECURSIVE IsSubsequence(_, _)
IsSubsequence(short, long) ==
    IF short = <<>> THEN TRUE
    ELSE IF long = <<>> THEN FALSE
    ELSE IF Head(short) = Head(long) THEN IsSubsequence(Tail(short), Tail(long))
    ELSE IsSubsequence(short, Tail(long))

ToolCallNames(calls) == [i \in 1..Len(calls) |-> calls[i].name]

C33_ResolvedChatAppendsTwo ==
    /\ [](chatPc \in {"streaming", "tool"} =>
             messages = Append(submitted.pre, Message("user", submitted.user)))
    /\ [][(chatPc # "resolved" /\ chatPc' = "resolved") =>
             /\ Len(messages') = Len(submitted.pre) + 2
             /\ SubSeq(messages', 1, Len(messages)) = messages
             /\ messages'[Len(messages')].role = "assistant"]_vars
    /\ [](\A i \in 1..Len(messages) : messages[i].role \in {"system", "user", "assistant"})

\* A chat on an initialized agent resolved after two tool calls, one of
\* them failed, and the conversation is system, user, assistant.
C33_Witness ==
    /\ chatPc = "resolved"
    /\ Len(response.toolCalls) = 2
    /\ \E i \in 1..2 : ~dispatched[i].success
    /\ Len(messages) = 3
    /\ messages[1].role = "system"
    /\ messages[2].role = "user"
    /\ messages[3].role = "assistant"

CategoryCalls(st) == st.fileReads + st.fileWrites + st.shellCommands

\* C35: toolCalls is never below fileReads + fileWrites + shellCommands;
\* every 'tool-call' event raises toolCalls by exactly one and the three
\* category counters together by at most one, whatever becomes of the call
\* afterwards; and updateToolStats does so for every tool name, the name of
\* an unregistered tool included.
C35_ToolCallsCoverCategories ==
    /\ [](stats.toolCalls >= CategoryCalls(stats))
    /\ [][called' # called /\ called' # <<>> =>
             /\ stats'.toolCalls = stats.toolCalls + 1
             /\ CategoryCalls(stats') - CategoryCalls(stats) \in {0, 1}]_vars
    /\ [](\A n \in ToolNames :
             /\ updateToolStats(stats, n).toolCalls = stats.toolCalls + 1
             /\ CategoryCalls(updateToolStats(stats, n)) - CategoryCalls(stats) \in {0, 1}
             /\ \A k \in {"fileReads", "fileWrites", "shellCommands"} :
                   updateToolStats(stats, n)[k] >= stats[k])

\* A shell call that was refused and a file read that ran were both counted.
C35_Witness ==
    /\ stats.toolCalls = 2
    /\ stats.shellCommands = 1
    /\ stats.fileReads = 1
    /\ called = <<"shell", "read_file">>
    /\ Len(dispatched) = 2
    /\ dispatched[1] = Failure(NotApprovedError)
    /\ dispatched[2].success

\* C32: every submit that is running eventually resolves or rejects (the
\* stream ends or fails, approvals and executions return); and while an
\* approval is outstanding the submit stays in that tool-call step: nothing
\* is consumed from the stream, nothing is executed and the conversation is
\* not written until the approver has answered.
C32_SubmitSettles ==
    /\ (chatPc \in {"streaming", "tool"}) ~> (chatPc \in {"resolved", "rejected"})
    /\ [][(chatPc = "tool" /\ tpc = "awaitApproval") =>
            \/ approverAnswer' # "none"
            \/ UNCHANGED <<chatVars, messages, stats, executorCalls, tpc>>]_vars

\* A submit resolved after an approval was asked for and granted, a tool was
\* run and text was streamed.
C32_Witness ==
    /\ chatPc = "resolved"
    /\ approverAnswer = "approved"
    /\ Len(dispatched) = 2
    /\ deltas = MaxDeltas
    /\ Len(messages) >= 2

-----------------------------------------------------------------------------
(* Properties of the session, checked under Spec *)

AddUsage(st, usage) ==
    [st EXCEPT !.promptTokens = @ + usage.promptTokens,
               !.completionTokens = @ + usage.completionTokens,
               !.totalTokens = @ + usage.totalTokens]

\* C12: a submit that completes appends exactly one assistant message, whose
\* content is the accumulated text, after the user message of the submit;
\* the usage it returns is added to the token counters of the session
\* statistics, and nothing else of the statistics changes in that step.
C12_CompletionAppendsAndAddsUsage ==
    [][(chatPc = "streaming" /\ chatPc' = "resolved") =>
          /\ messages' = submitted.pre
                          \o <<Message("user", submitted.user), Message("assistant", fullContent)>>
          /\ response'.content = fullContent
          /\ stats' = AddUsage(stats, response'.usage)]_vars

\* A second submit has completed on statistics that were not zero.
C12_Witness ==
    /\ chatPc = "resolved"
    /\ stats.promptTokens = 2 * response.usage.promptTokens
    /\ response.usage.promptTokens > 0
    /\ Len(messages) = 5
    /\ messages[5] = Message("assistant", response.content)

C16_SavedIsRetrievable ==
    /\ [](lastOp.op = "saveCheckpoint" =>
            /\ checkpoints # <<>>
            /\ checkpoints[Len(checkpoints)].id = lastOp.key
            /\ FindCheckpoint(checkpoints, lastOp.key) = Len(checkpoints))
    /\ [][(lastOp.op = "saveCheckpoint" /\ lastOp'.op = "restoreCheckpoint"
             /\ lastOp'.key = lastOp.key) =>
            /\ lastOp'.flag
            /\ messages' = savedAt[Len(savedAt)]
            /\ currentCheckpoint' = Len(checkpoints) - 1]_vars

\* A save that evicted the oldest checkpoint, after the conversation it had
\* snapshotted was replaced.
C16_Witness ==
    /\ lastOp.op = "saveCheckpoint"
    /\ lastOp.flag
    /\ checkpoints[Len(checkpoints)].id = lastOp.key
    /\ Len(messages) > 1

\* C17: currentCheckpoint is never negative and is an index of the list
\* whenever the list is not empty; right after saveCheckpoint, evicting or
\* not, it is the last index, where the checkpoint just saved is.
C17_CurrentCheckpointValid ==
    /\ currentCheckpoint >= 0
    /\ checkpoints # <<>> => currentCheckpoint < Len(checkpoints)
    /\ lastOp.op = "saveCheckpoint" =>
          /\ currentCheckpoint = Len(checkpoints) - 1
          /\ checkpoints[currentCheckpoint + 1].id = lastOp.key

\* A save that evicted: the index was decremented to the last position.
C17_Witness ==
    /\ lastOp.op = "saveCheckpoint"
    /\ lastOp.flag
    /\ nextId - 1 = Len(checkpoints) + 1
    /\ currentCheckpoint = Len(checkpoints) - 1

\* C18: a saveCheckpoint called right after a successful restoreCheckpoint
\* stores a checkpoint whose messages equal those of the restored checkpoint.
C18_RestoreThenSaveCopies ==
    [][(lastOp.op = "restoreCheckpoint" /\ lastOp.flag /\ lastOp'.op = "saveCheckpoint") =>
          checkpoints'[Len(checkpoints')].messages
            = checkpoints[FindCheckpoint(checkpoints, lastOp.key)].messages]_vars

\* A save made right after restoring an older conversation.
C18_Witness ==
    /\ lastOp.op = "saveCheckpoint"
    /\ lastOp.after # ""
    /\ Len(checkpoints) = 2
    /\ checkpoints[1].messages = checkpoints[2].messages
    /\ Len(checkpoints[2].messages) > 1
    /\ checkpoints[1].stats # checkpoints[2].stats

PositionOfId(list, id) ==
    IF \E i \in 1..Len(list) : list[i].id = id
    THEN CHOOSE i \in 1..Len(list) : list[i].id = id
    ELSE 0

\* C19: right after a restoreCheckpoint that found its checkpoint, the live
\* conversation is the conversation that checkpoint was saved from and
\* currentCheckpoint is its position; when the key is the id of a stored
\* checkpoint, that checkpoint is the one restored.
C19_RestoreBringsBackSavedConversation ==
    (lastOp.op = "restoreCheckpoint" /\ lastOp.flag) =>
        /\ currentCheckpoint + 1 \in 1..Len(checkpoints)
        /\ messages = savedAt[currentCheckpoint + 1]
        /\ PositionOfId(checkpoints, lastOp.key) # 0 =>
              currentCheckpoint + 1 = PositionOfId(checkpoints, lastOp.key)

\* A restore by id after a submit completed on top of the saved conversation.
C19_Witness ==
    /\ lastOp.op = "restoreCheckpoint"
    /\ lastOp.flag
    /\ PositionOfId(checkpoints, lastOp.key) = currentCheckpoint + 1
    /\ messages = savedAt[currentCheckpoint + 1]
    /\ stats.promptTokens > checkpoints[currentCheckpoint + 1].stats.promptTokens
    /\ Len(checkpoints) > 1

\* C20: when one stored checkpoint has id x and another one has tag x,
\* restoreCheckpoint(x) restores the one whose id is x.
C20_IdBeforeTag ==
    \A i, j \in 1..Len(checkpoints) :
        (/\ lastOp.op = "restoreCheckpoint"
         /\ i # j
         /\ checkpoints[i].id = lastOp.key
         /\ checkpoints[j].tag = <<lastOp.key>>) =>
            /\ lastOp.flag
            /\ currentCheckpoint = i - 1
            /\ messages = checkpoints[i].messages

\* Such a restore, with two checkpoints that hold different conversations.
C20_Witness ==
    /\ lastOp.op = "restoreCheckpoint"
    /\ Len(checkpoints) = 2
    /\ checkpoints[1].id = lastOp.key
    /\ checkpoints[2].tag = <<lastOp.key>>
    /\ checkpoints[1].messages # checkpoints[2].messages
    /\ messages = checkpoints[1].messages

\* C21: a restoreCheckpoint whose argument matches no stored id or tag
\* returns false and leaves the conversation, the checkpoint list,
\* currentCheckpoint and the statistics as they were.
C21_RestoreMissChangesNothing ==
    [][(lastOp'.op = "restoreCheckpoint"
          /\ FindCheckpoint(checkpoints, lastOp'.key) = 0) =>
          /\ ~lastOp'.flag
          /\ UNCHANGED <<messages, checkpoints, currentCheckpoint, stats>>]_vars

\* A miss on the id of an evicted checkpoint, with a conversation, a
\* checkpoint and statistics to lose.
C21_Witness ==
    /\ lastOp.op = "restoreCheckpoint"
    /\ ~lastOp.flag
    /\ lastOp.key = Uuids[1]
    /\ checkpoints # <<>>
    /\ messages # checkpoints[1].messages
    /\ Len(messages) > 1
    /\ stats.totalTokens > 0

\* C22: a stored checkpoint never changes: every step leaves the list as it
\* is, or adds one checkpoint at the end, dropping at most the oldest one;
\* and the messages of a stored checkpoint are always the conversation it
\* was saved from.
C22_CheckpointsImmutable ==
    /\ [][\/ checkpoints' = checkpoints
          \/ /\ Len(checkpoints') = Len(checkpoints) + 1
             /\ SubSeq(checkpoints', 1, Len(checkpoints)) = checkpoints
          \/ /\ checkpoints # <<>>
             /\ Len(checkpoints') = Len(checkpoints)
             /\ SubSeq(checkpoints', 1, Len(checkpoints) - 1) = Tail(checkpoints)
             /\ lastOp'.op = "saveCheckpoint"]_vars
    /\ [](/\ Len(savedAt) = Len(checkpoints)
          /\ \A i \in 1..Len(checkpoints) : checkpoints[i].messages = savedAt[i])

\* The system message was rebuilt after a checkpoint was saved, and the
\* checkpoint still holds the old one.
C22_Witness ==
    /\ lastOp.op = "refreshContext"
    /\ checkpoints # <<>>
    /\ Len(checkpoints[1].messages) > 1
    /\ messages # <<>>
    /\ messages[1].role = "system"
    /\ checkpoints[1].messages[1].role = "system"
    /\ messages[1] # checkpoints[1].messages[1]

\* C23: right after clear() the conversation is exactly one message, a
\* system message, and every session counter is zero.
C23_ClearLeavesSystemMessage ==
    lastOp.op = "clear" =>
        /\ Len(messages) = 1
        /\ messages[1].role = "system"
        /\ stats = createInitialStats

Counters ==
    {"promptTokens", "completionTokens", "totalTokens",
     "toolCalls", "fileReads", "fileWrites", "shellCommands"}

\* C26: no step other than a clear() lowers a counter of the session
\* statistics.
C26_CountersMonotonic ==
    [][lastOp'.op # "clear" => \A k \in Counters : stats'[k] >= stats[k]]_vars

\* A checkpoint saved before the submit that ran a tool was restored, and the
\* statistics are still those of after the submit.
C26_Witness ==
    /\ lastOp.op = "restoreCheckpoint"
    /\ lastOp.flag
    /\ stats.toolCalls > checkpoints[currentCheckpoint + 1].stats.toolCalls
    /\ stats.fileReads > checkpoints[currentCheckpoint + 1].stats.fileReads
    /\ stats.totalTokens > checkpoints[currentCheckpoint + 1].stats.totalTokens

\* C37: a successful restoreCheckpoint leaves the session statistics and
\* the checkpoint list (contents and order) as they were; it writes the
\* conversation and currentCheckpoint only.
C37_RestoreFrame ==
    [][(lastOp'.op = "restoreCheckpoint" /\ lastOp'.flag) =>
          /\ UNCHANGED <<stats, checkpoints, provider, config, options, nextId>>
          /\ UNCHANGED <<chatVars, toolVars>>
          /\ messages' = checkpoints[currentCheckpoint' + 1].messages]_vars

\* The older of two checkpoints was restored after further submits: the
\* list still holds both, and the statistics are ahead of the restored
\* checkpoint's copy.
C37_Witness ==
    /\ lastOp.op = "restoreCheckpoint"
    /\ lastOp.flag
    /\ Len(checkpoints) = 2
    /\ currentCheckpoint = 0
    /\ messages = checkpoints[1].messages
    /\ messages # checkpoints[2].messages
    /\ stats.totalTokens > checkpoints[2].stats.totalTokens
    /\ checkpoints[2].stats.totalTokens > checkpoints[1].stats.totalTokens

\* C34: a chat called on an agent without a provider rejects and leaves the
\* conversation, the statistics and the checkpoints as they were.
C34_ChatWithoutProviderTouchesNothing ==
    [][(~provider /\ chats' # chats) =>
          /\ chatPc' = "rejected"
          /\ UNCHANGED <<messages, stats, checkpoints, currentCheckpoint, response>>]_vars

\* A chat was rejected on an agent that was never initialized but already
\* holds a checkpoint.
C34_Witness ==
    /\ ~provider
    /\ chatPc = "rejected"
    /\ lastOp = Op("chat", "", FALSE)
    /\ chats = 2
    /\ checkpoints # <<>>

-----------------------------------------------------------------------------
(* Properties of compact(), checked under SpecCompact *)

\* C24: compact() on a conversation of at most 4 messages leaves it as it is.
C24_ShortConversationUnchanged ==
    [][(lastOp'.op = "compact" /\ Len(messages) <= KeepRecent) =>
          messages' = messages]_vars

\* A conversation of exactly four messages has been through compact().
C24_Witness ==
    /\ lastOp.op = "compact"
    /\ Len(messages) = KeepRecent
    /\ messages[1].role = "system"
    /\ messages[2].role = "user"

\* The messages compact() elides from msgs: those after index 0 and before
\* the last four.
Elided(msgs) == SubSeq(msgs, 2, Len(msgs) - KeepRecent)

\* The summary message for the elided messages: one "<role>: <first 200
\* characters>" line per message, in order, between the two marker lines.
SummaryOf(old) ==
    Message("system",
            Chars.summaryOpen
            \o JoinLines([i \in 1..Len(old) |->
                            Chars[old[i].role] \o <<":", " ">>
                            \o [k \in 1..(IF Len(old[i].content) < SliceLen
                                          THEN Len(old[i].content) ELSE SliceLen) |->
                                  old[i].content[k]]])
            \o Chars.summaryClose)

\* What the claim describes: the message at index 0, the summary of the
\* elided messages, the last four messages.
SummarisedForm(before, after) ==
    /\ Len(after) = KeepRecent + 2
    /\ after[1] = before[1]
    /\ after[2] = SummaryOf(Elided(before))
    /\ SubSeq(after, 3, Len(after)) =
         SubSeq(before, Len(before) - KeepRecent + 1, Len(before))

\* C25 as stated: compact() on any conversation of more than 4 messages
\* leaves the index-0 system message, one system-role summary message with
\* one line per elided message, and the last 4 messages.
C25_EveryLongConversationSummarised ==
    [][(lastOp'.op = "compact" /\ Len(messages) > KeepRecent) =>
          /\ messages[1].role = "system"
          /\ SummarisedForm(messages, messages')]_vars

\* C25 (amended): compact() on a conversation of more than 5 messages leaves
\* the message that was at index 0, one system-role summary message with one
\* "<role>: <first 200 characters>" line per elided message in order, and the
\* last 4 messages; a conversation of exactly 5 messages, in which nothing
\* lies between index 0 and the last 4, is left as it is.
C25_ConversationPastFiveSummarised ==
    [][lastOp'.op = "compact" =>
          /\ Len(messages) > KeepRecent + 1 => SummarisedForm(messages, messages')
          /\ Len(messages) = KeepRecent + 1 => messages' = messages]_vars

\* A compaction that elided two messages, one of them longer than 200
\* characters, so that the summary holds a cut line.
C25_Witness ==
    /\ lastOp.op = "compact"
    /\ Len(messages) = KeepRecent + 2
    /\ messages[1].role = "system"
    /\ messages[2] = SummaryOf(<<Message("user", LongContent), Message("assistant", <<"a">>)>>)
    /\ Len(messages[2].content) < Len(LongContent) + Len(Chars.summaryOpen)
                                  + Len(Chars.summaryClose) + 20

\* What every compact() keeps: the length does not grow, index 0 and the
\* last four messages stay, and a conversation of six or more messages
\* comes out with exactly six.
CompactFrame ==
    [][lastOp'.op = "compact" =>
          /\ Len(messages') <= Len(messages)
          /\ messages # <<>> => messages'[1] = messages[1]
          /\ Len(messages) >= KeepRecent =>
                SubSeq(messages', Len(messages') - KeepRecent + 1, Len(messages'))
                  = SubSeq(messages, Len(messages) - KeepRecent + 1, Len(messages))
          /\ Len(messages) >= KeepRecent + 2 => Len(messages') = KeepRecent + 2]_vars

RECURSIVE Repeat(_, _)
Repeat(q, n) == IF n = 0 THEN <<>> ELSE q \o Repeat(q, n - 1)

\* The summary that wrapping has filled up: the opening marker and
\* "system: " six times over (240 characters, of which a summary line keeps
\* 200), then the closing marker.
SaturatedSummary ==
    Message("system",
            Repeat(Chars.summaryOpen \o Chars.system \o <<":", " ">>,
                   (SliceLen + Len(Chars.summaryOpen) + Len(Chars.system) + 2)
                     \div (Len(Chars.summaryOpen) + Len(Chars.system) + 2))
            \o Chars.summaryClose)

\* C39 as stated: compact() keeps the length from growing, index 0 and the
\* last 4 messages; from 6 messages on the result has exactly 6 messages,
\* and compact() of a conversation of 6 or more messages always rewrites the
\* message at index 1: no such conversation is left as it is.
C39_CompactNeverAFixpoint ==
    /\ CompactFrame
    /\ [](Len(messages) >= KeepRecent + 2 => Compacted(messages)[2] # messages[2])

\* C39 (amended): compact() keeps the length from growing, index 0 and the
\* last 4 messages; from 6 messages on the result has exactly 6 messages.
\* A further call rewrites the message at index 1, wrapping the previous
\* summary, except when that message is the saturated summary: then, and
\* only then, compact() leaves the conversation as it is.
C39_CompactFixpointOnlyWhenSaturated ==
    /\ CompactFrame
    /\ [](Len(messages) >= KeepRecent + 2 =>
             /\ Len(Compacted(messages)) = KeepRecent + 2
             /\ (Compacted(messages) = messages <=>
                    (Len(messages) = KeepRecent + 2 /\ messages[2] = SaturatedSummary)))

\* Compaction was repeated until the summary filled up: the conversation of
\* six is now left unchanged by compact().
C39_Witness ==
    /\ lastOp.op = "compact"
    /\ Len(messages) = KeepRecent + 2
    /\ messages[1].role = "system"
    /\ messages[2] = SaturatedSummary
    /\ Compacted(messages) = messages

-----------------------------------------------------------------------------
(* Properties of the command line program, checked under SpecCli *)

\* A SIGINT was handled during the chat that is still running.
InterruptedChat == ChatRunning /\ cli.interrupted = chats

\* C27: once a user interrupt has arrived during a submit, the stream is
\* consumed no further (no text delta, tool call or tool result is
\* processed), the messages appended so far stay, and an approval that was
\* outstanding is not granted.
C27_InterruptStopsTheSubmit ==
    [][InterruptedChat =>
          /\ emitted' = emitted
          /\ called' = called
          /\ dispatched' = dispatched
          /\ SubSeq(messages', 1, Len(messages)) = messages
          /\ (tpc = "awaitApproval" => tpc' # "executing")]_vars

\* C28: in interactive mode at most one chat call is in flight at any time.
C28_AtMostOneChatInFlight ==
    cli.mode = "interactive" => InFlight <= 1

\* C29: whenever the command line program has ended after its agent was
\* created, killAllProcesses has been invoked.
C29_TeardownKillsProcesses ==
    cli.exit # "running" /\ provider => cli.killed

\* C30: in exec mode without --full-auto under policy untrusted or
\* on-request, no tool that requires approval is executed and no approval is
\* granted; with --full-auto the policy is never, no approval is requested,
\* and every tool call the stream hands over goes straight to execution.
C30_ExecModeApproval ==
    /\ [](cli.mode = "exec" /\ ~cli.fullAuto
             /\ config.approvalPolicy \in {"untrusted", "on-request"} =>
             /\ approverAnswer # "approved"
             /\ tpc = "executing" => ~getTool(tname).requiresApproval)
    /\ [](cli.mode = "exec" /\ cli.fullAuto =>
             /\ config.approvalPolicy = "never"
             /\ approverCalls = 0
             /\ tpc # "awaitApproval")
    /\ [][cli.mode = "exec" /\ cli.fullAuto /\ called' # called /\ called' # <<>> =>
             /\ tpc' = "executing"
             /\ tname' = called'[Len(called')]
             /\ executorCalls' = 1]_vars

\* An exec run without --full-auto in which the model asked for the shell,
\* the approval was refused, and the chat went on to resolve.
C30_Witness ==
    /\ cli.mode = "exec"
    /\ ~cli.fullAuto
    /\ config.approvalPolicy = "untrusted"
    /\ chatPc = "resolved"
    /\ called = <<"shell", "read_file">>
    /\ Len(dispatched) = 2
    /\ ~dispatched[1].success
    /\ dispatched[2].success
    /\ cli.exit = "done"

-----------------------------------------------------------------------------
(* Properties of the checkpoint list, checked under SpecSaves *)

Min(a, b) == IF a < b THEN a ELSE b

\* The number of saveCheckpoint calls so far, and how many checkpoints the
\* list holds after them.
SavesSoFar == nextId - 1
Kept == Min(SavesSoFar, CheckpointLimit(config))

\* The list holds the most recent Kept checkpoints, oldest first.
InSaveOrder ==
    /\ Len(checkpoints) = Kept
    /\ \A i \in 1..Kept : checkpoints[i].id = Uuids[SavesSoFar - Kept + i]

EvictedIds == {Uuids[j] : j \in 1..(SavesSoFar - Kept)}

\* C36 as stated: the list holds the most recent min(n, M) checkpoints in
\* save order, and a restoreCheckpoint with the id of an evicted checkpoint
\* returns false.
C36_FifoAndEvictedIdFails ==
    /\ InSaveOrder
    /\ (lastOp.op = "restoreCheckpoint" /\ lastOp.key \in EvictedIds) => ~lastOp.flag

\* C36 (amended): the list holds the most recent min(n, M) checkpoints in
\* save order; a restoreCheckpoint with the id of an evicted checkpoint
\* returns false unless a checkpoint still in the list carries that id as
\* its tag, in which case that checkpoint is restored.
C36_FifoAndEvictedIdFailsUnlessTag ==
    /\ InSaveOrder
    /\ (lastOp.op = "restoreCheckpoint" /\ lastOp.key \in EvictedIds) =>
          (lastOp.flag <=> \E i \in 1..Len(checkpoints) : checkpoints[i].tag = <<lastOp.key>>)
    /\ (lastOp.op = "restoreCheckpoint" /\ lastOp.key \in EvictedIds /\ lastOp.flag) =>
          checkpoints[currentCheckpoint + 1].tag = <<lastOp.key>>

\* Four saves under a limit of two: the first two checkpoints are gone and
\* a restore by the id of the first one failed.
C36_Witness ==
    /\ SavesSoFar = 4
    /\ config.maxCheckpoints = 2
    /\ Len(checkpoints) = 2
    /\ checkpoints[1].id = Uuids[3]
    /\ lastOp = Op("restoreCheckpoint", Uuids[1], FALSE)

\* The positions of the stored checkpoints that carry key as their tag.
TagCarriers(key) == {i \in 1..Len(checkpoints) : checkpoints[i].tag = <<key>>}
Oldest(S) == CHOOSE i \in S : \A j \in S : i <= j

\* C38 as stated: when several stored checkpoints carry the same tag,
\* restoreCheckpoint(tag) restores the oldest of them.
C38_SameTagRestoresOldestCarrier ==
    (lastOp.op = "restoreCheckpoint" /\ Cardinality(TagCarriers(lastOp.key)) >= 2) =>
        /\ lastOp.flag
        /\ currentCheckpoint + 1 = Oldest(TagCarriers(lastOp.key))
        /\ messages = checkpoints[Oldest(TagCarriers(lastOp.key))].messages

\* C38 (amended): when several stored checkpoints carry the same tag,
\* restoreCheckpoint(tag) restores the oldest of them, unless a checkpoint
\* saved before all of them and still in the list has that string as its
\* id: then that checkpoint is restored. The most recently saved carrier is
\* never the one restored.
C38_SameTagRestoresFirstMatch ==
    (lastOp.op = "restoreCheckpoint" /\ Cardinality(TagCarriers(lastOp.key)) >= 2) =>
        LET carriers == TagCarriers(lastOp.key)
            byId == {i \in 1..Len(checkpoints) : checkpoints[i].id = lastOp.key}
            first == IF byId # {} /\ Oldest(byId) < Oldest(carriers)
                     THEN Oldest(byId) ELSE Oldest(carriers)
        IN  /\ lastOp.flag
            /\ currentCheckpoint + 1 = first
            /\ messages = checkpoints[first].messages
            /\ \A i \in carriers : i > first => currentCheckpoint + 1 # i

\* Two of three stored checkpoints carry the plain tag, they hold different
\* conversations, and a restore by the tag brought back the older one.
C38_Witness ==
    /\ lastOp = Op("restoreCheckpoint", PlainTag, TRUE)
    /\ Len(checkpoints) = 3
    /\ TagCarriers(PlainTag) = {2, 3}
    /\ currentCheckpoint = 1
    /\ checkpoints[2].messages # checkpoints[3].messages
    /\ messages = checkpoints[2].messages
    /\ messages # checkpoints[1].messages


====
